---- MODULE Spec2Model ----
(***************************************************************************)
(* Model of the chord-probability interpolation engine                     *)
(* (frontend_ui/src/lib/probability.ts).                                   *)
(*                                                                         *)
(* JavaScript numbers are modelled as exact rationals <<n, d>> (d > 0, in  *)
(* lowest terms), so "equal" below reads as "equal up to floating-point    *)
(* rounding" for the IEEE doubles the code computes with.                  *)
(* A JavaScript object is a function whose DOMAIN is its set of own keys;  *)
(* an absent key (undefined) is a key outside the DOMAIN.                  *)
(***************************************************************************)
EXTENDS Integers, Sequences, FiniteSets, TLC

VARIABLES
    progression,      \* argument: string[]
    models,           \* argument: Models
    weights,          \* argument: InterpolationWeights
    metadata,         \* argument: metadata?: any
    pc,               \* "ready" before the call, "done" after it returned,
                      \* "repeated" after a second call on the same objects
    contextCounts,    \* local of computeProbabilities (line 111)
    lambdas,          \* locals lambda1..3 of adjustWeights after the backoff steps (line 74)
    adjustedWeights,  \* local of computeProbabilities (line 114)
    consulted,        \* the orders whose table was read through getModelProbabilities
    allNextChords,    \* local of computeProbabilities: the candidate set (line 117)
    blended,          \* finalProbs before the final normalization (line 166)
    result,           \* the returned mapping
    cachedModels,     \* dataLoader.ts: module variable cachedModels (line 3)
    loads,            \* dataLoader.ts: the loadModels calls, each with its position and locals
    page,             \* Home: the state set by the mount effect (loading, error, models, loadProgress)
    aggs,             \* CountAggregator: the counters of each shard's aggregator
    live,             \* CountAggregator: the shards not yet merged into another one
    whole,            \* one aggregator that is given every sequence any shard is given
    ingests,          \* number of ingest calls made
    lastOp,           \* the last aggregator operation and how it ended
    home,             \* Home: progression, nextChordProbs, savedProgressions and the
                      \* dependencies the probability effect last ran with
    isPlaying,        \* Home: the isPlaying state
    playTimeoutRef,   \* Home: playTimeoutRef.current
    timers,           \* window timers that are pending
    timerCount,       \* number of timers set so far (the last timer's id)
    audioContext,     \* midi: the module's audioContext (0 for null)
    contexts,         \* the state of every AudioContext created
    stopListeners,    \* midi: the registered stop listeners
    midiCalls,        \* the calls of handlePlayMidi and handleStopMidi made
    heard,            \* how often each listener has been invoked
    stopDone          \* a handleStopMidi has completed and no play was requested since

engineVars == <<progression, models, weights, metadata, pc, contextCounts, lambdas,
                adjustedWeights, consulted, allNextChords, blended, result>>

loaderVars == <<cachedModels, loads, page>>

aggVars == <<aggs, live, whole, ingests, lastOp>>

homeVars == <<home>>

midiVars ==
    <<isPlaying, playTimeoutRef, timers, timerCount, audioContext, contexts,
      stopListeners, midiCalls, heard, stopDone>>

vars == <<engineVars, loaderVars, aggVars, homeVars, midiVars>>

----------------------------------------------------------------------------
(* Bounds of the model *)

MaxLen == 3

MaxCount == 5

MaxLoads == 3

MaxIngests == 3

----------------------------------------------------------------------------
(* Numbers *)

RECURSIVE GCD(_, _)
GCD(a, b) == IF b = 0 THEN a ELSE GCD(b, a % b)

Abs(n) == IF n < 0 THEN -n ELSE n

R(n, d) ==
    LET g == GCD(Abs(n), d)
    IN  <<n \div g, d \div g>>

Zero == R(0, 1)

One == R(1, 1)

RAdd(a, b) == R(a[1] * b[2] + b[1] * a[2], a[2] * b[2])

RSub(a, b) == R(a[1] * b[2] - b[1] * a[2], a[2] * b[2])

RMul(a, b) == R(a[1] * b[1], a[2] * b[2])

RDiv(a, b) ==
    IF b[1] > 0 THEN R(a[1] * b[2], a[2] * b[1])
                ELSE R(-(a[1] * b[2]), a[2] * (-b[1]))

RGt(a, b) == a[1] * b[2] > b[1] * a[2]

RLt(a, b) == RGt(b, a)

RGe(a, b) == ~RLt(a, b)

RECURSIVE RSum(_, _)
RSum(f, S) ==
    IF S = {} THEN Zero
    ELSE LET k == CHOOSE x \in S : TRUE
         IN  RAdd(f[k], RSum(f, S \ {k}))

----------------------------------------------------------------------------
(* probability.ts: constants *)

DEFAULT_WEIGHTS == [lambda3 |-> R(60, 100), lambda2 |-> R(30, 100), lambda1 |-> R(10, 100)]

BACKOFF_THRESHOLD == 3

EmptyObject == <<>>

----------------------------------------------------------------------------
(* probability.ts: helpers for arrays, strings and objects *)

\* Array.prototype.slice(-n): the last n elements (the whole array when shorter).
\* A plausible slip: the slice taken one element short.
SliceLast_OneShort(arr, n) ==
    LET from == IF Len(arr) > n - 1 THEN Len(arr) - n + 2 ELSE 1
    IN  SubSeq(arr, from, Len(arr))

SliceLast(arr, n) ==
    LET from == IF Len(arr) > n THEN Len(arr) - n + 1 ELSE 1
    IN  SubSeq(arr, from, Len(arr))

\* Array.prototype.join(','): the elements separated by the delimiter.
RECURSIVE Join(_)
Join(arr) ==
    IF Len(arr) = 0 THEN ""
    ELSE IF Len(arr) = 1 THEN arr[1]
    ELSE arr[1] \o "," \o Join(Tail(arr))

\* progression[progression.length - 1]: index -1 of an empty array is undefined,
\* which as an object key reads "undefined".
LastChord(prog) == IF Len(prog) = 0 THEN "undefined" ELSE prog[Len(prog)]

\* A plausible slip: a context the metadata does not hold counted as seen often.
NumberOrZero_MissingIsStrong(obj, key) == IF key \in DOMAIN obj THEN obj[key] ELSE 3

\* obj[key] || 0 : a missing key and a stored 0 both give 0.
NumberOrZero(obj, key) == IF key \in DOMAIN obj THEN obj[key] ELSE 0

\* probs[chord] || 0 on a row of probabilities.
ProbOrZero(probs, chord) == IF chord \in DOMAIN probs THEN probs[chord] ELSE Zero

\* metadata.<table>?.[context] || 0
MetadataCount(md, table, context) ==
    IF table \in DOMAIN md.tables
    THEN NumberOrZero(md.tables[table], context)
    ELSE 0

----------------------------------------------------------------------------
(* probability.ts: getContextCounts *)

getContextCounts(prog, md) ==
    IF ~md.given THEN EmptyObject
    ELSE
        (IF Len(prog) >= 1
         THEN "unigram" :> MetadataCount(md, "unigram_counts", LastChord(prog))
         ELSE EmptyObject)
        @@
        (IF Len(prog) >= 2
         THEN "bigram" :> MetadataCount(md, "bigram_counts", Join(SliceLast(prog, 2)))
         ELSE EmptyObject)
        @@
        (IF Len(prog) >= 3
         THEN "trigram" :> MetadataCount(md, "trigram_counts", Join(SliceLast(prog, 3)))
         ELSE EmptyObject)

----------------------------------------------------------------------------
(* probability.ts: adjustWeights *)

\* A plausible slip: <= in place of <.
WeakOrMissing_Inclusive(counts, order) ==
    \/ order \notin DOMAIN counts
    \/ counts[order] <= 3

\* contextCounts.<order> === undefined || contextCounts.<order> < BACKOFF_THRESHOLD
WeakOrMissing(counts, order) ==
    \/ order \notin DOMAIN counts
    \/ counts[order] < BACKOFF_THRESHOLD

\* A plausible slip: the trigram step never reduces the weight.
BackoffTrigram_NoReduction(l, counts) == l

\* A plausible slip: the trigram reduction applied whatever the count is.
BackoffTrigram_Unconditional(l, counts) ==
    LET reduction == RMul(l.lambda3, R(5, 10))
    IN  [lambda3 |-> RSub(l.lambda3, reduction),
         lambda2 |-> RAdd(l.lambda2, RMul(reduction, R(6, 10))),
         lambda1 |-> RAdd(l.lambda1, RMul(reduction, R(4, 10)))]

\* lines 60-67: the trigram step
BackoffTrigram(l, counts) ==
    IF WeakOrMissing(counts, "trigram")
    THEN LET reduction == RMul(l.lambda3, R(5, 10))
         IN  [lambda3 |-> RSub(l.lambda3, reduction),
              lambda2 |-> RAdd(l.lambda2, RMul(reduction, R(6, 10))),
              lambda1 |-> RAdd(l.lambda1, RMul(reduction, R(4, 10)))]
    ELSE l

\* lines 69-74: the bigram step
BackoffBigram(l, counts) ==
    IF WeakOrMissing(counts, "bigram")
    THEN LET reduction == RMul(l.lambda2, R(5, 10))
         IN  [lambda3 |-> l.lambda3,
              lambda2 |-> RSub(l.lambda2, reduction),
              lambda1 |-> RAdd(l.lambda1, reduction)]
    ELSE l

\* A plausible slip: the two steps applied in the other order.
BackoffSteps_BigramFirst(w, counts) == BackoffTrigram(BackoffBigram(w, counts), counts)

\* lines 56-74: the two steps in the order the code applies them
BackoffSteps(w, counts) == BackoffBigram(BackoffTrigram(w, counts), counts)

\* lines 76-84
NormalizeWeights(l) ==
    LET total == RAdd(RAdd(l.lambda1, l.lambda2), l.lambda3)
    IN  IF RGt(total, Zero)
        THEN [lambda1 |-> RDiv(l.lambda1, total),
              lambda2 |-> RDiv(l.lambda2, total),
              lambda3 |-> RDiv(l.lambda3, total)]
        ELSE l

adjustWeights(w, counts) == NormalizeWeights(BackoffSteps(w, counts))

----------------------------------------------------------------------------
(* probability.ts: getModelProbabilities and computeProbabilities *)

\* A plausible slip: a uniform row over the known contexts in place of {} when
\* the table has no row (the fallback plan.md describes).
getModelProbabilities_UniformFallback(model, context) ==
    IF context \in DOMAIN model THEN model[context]
    ELSE [chord \in {"C", "G", "Amin"} |-> R(1, 3)]

\* model[context] || {}
getModelProbabilities(model, context) ==
    IF context \in DOMAIN model THEN model[context] ELSE EmptyObject

\* A plausible slip: the trigram table read whenever three chords are present.
TrigramIncluded_NoCountCheck(prog, counts) == Len(prog) >= 3

\* line 125
TrigramIncluded(prog, counts) ==
    /\ Len(prog) >= 3
    /\ "trigram" \in DOMAIN counts
    /\ counts["trigram"] >= BACKOFF_THRESHOLD

\* A plausible slip: the bigram table read whenever two chords are present.
BigramIncluded_NoCountCheck(prog, counts) == Len(prog) >= 2

\* line 132
BigramIncluded(prog, counts) ==
    /\ Len(prog) >= 2
    /\ "bigram" \in DOMAIN counts
    /\ counts["bigram"] >= BACKOFF_THRESHOLD

\* line 139
UnigramIncluded(prog, counts) == Len(prog) >= 1

\* A plausible slip: the bigram and unigram weights exchanged.
Interpolate_WeightsSwapped(aw, p3, p2, p1) ==
    RAdd(RAdd(RMul(aw.lambda3, p3), RMul(aw.lambda1, p2)), RMul(aw.lambda2, p1))

\* lines 158-161
Interpolate(aw, p3, p2, p1) ==
    RAdd(RAdd(RMul(aw.lambda3, p3), RMul(aw.lambda2, p2)), RMul(aw.lambda1, p1))

\* A plausible slip: the final division left out.
NormalizeProbs_NoDivision(finalProbs) == finalProbs

\* lines 168-174
NormalizeProbs(finalProbs) ==
    LET total == RSum(finalProbs, DOMAIN finalProbs)
    IN  IF RGt(total, Zero)
        THEN [chord \in DOMAIN finalProbs |-> RDiv(finalProbs[chord], total)]
        ELSE finalProbs

\* A plausible slip: an empty progression answered from the unigram table's
\* contexts, as a uniform "start of song" distribution.
EmptyProgressionResult_Uniform(m) ==
    [chord \in DOMAIN m.unigram |-> R(1, Cardinality(DOMAIN m.unigram))]

\* lines 106-108: what an empty progression returns
EmptyProgressionResult(m) == EmptyObject

\* The whole of computeProbabilities, with the values of its locals at return.
Compute(prog, m, w, md) ==
    IF Len(prog) = 0
    THEN [contextCounts |-> EmptyObject, lambdas |-> w, adjustedWeights |-> w,
          consulted |-> {}, allNextChords |-> {}, blended |-> EmptyObject,
          result |-> EmptyProgressionResult(m)]
    ELSE
    LET counts == getContextCounts(prog, md)
        aw == adjustWeights(w, counts)
        use3 == TrigramIncluded(prog, counts)
        use2 == BigramIncluded(prog, counts)
        use1 == UnigramIncluded(prog, counts)
        trigramProbs ==
            IF use3 THEN getModelProbabilities(m.trigram, Join(SliceLast(prog, 3)))
                    ELSE EmptyObject
        bigramProbs ==
            IF use2 THEN getModelProbabilities(m.bigram, Join(SliceLast(prog, 2)))
                    ELSE EmptyObject
        unigramProbs ==
            IF use1 THEN getModelProbabilities(m.unigram, LastChord(prog))
                    ELSE EmptyObject
        candidates == DOMAIN trigramProbs \cup DOMAIN bigramProbs \cup DOMAIN unigramProbs
        interpolated ==
            [chord \in candidates |->
                Interpolate(aw, ProbOrZero(trigramProbs, chord),
                                ProbOrZero(bigramProbs, chord),
                                ProbOrZero(unigramProbs, chord))]
        kept == {chord \in candidates : RGt(interpolated[chord], Zero)}
        finalProbs == [chord \in kept |-> interpolated[chord]]
    IN  [contextCounts |-> counts,
         lambdas |-> BackoffSteps(w, counts),
         adjustedWeights |-> aw,
         consulted |-> (IF use3 THEN {3} ELSE {}) \cup (IF use2 THEN {2} ELSE {})
                        \cup (IF use1 THEN {1} ELSE {}),
         allNextChords |-> candidates,
         blended |-> finalProbs,
         result |-> IF candidates = {} THEN EmptyObject
                    ELSE NormalizeProbs(finalProbs)]

computeProbabilities(prog, m, w, md) == Compute(prog, m, w, md).result

\* A plausible slip: the backoff steps written into the weights object passed in
\* (the shared DEFAULT_WEIGHTS when the caller passes none).
WeightsAfterCall_InPlace(prog, w, md) ==
    IF Len(prog) = 0 THEN w ELSE BackoffSteps(w, getContextCounts(prog, md))

\* The weights object after the call: adjustWeights copies its fields into
\* locals (lines 56-58) and returns a new object (line 84).
WeightsAfterCall(prog, w, md) == w

\* The tables after the call: rows are only read (lines 127-141, 154-156);
\* the normalization writes into finalProbs, a new object (line 151).
ModelsAfterCall(prog, m) == m

----------------------------------------------------------------------------
(* The inputs the calls are made with *)

ChordLabels == {"C", "G", "Amin"}

CleanProgressions == UNION {[1..n -> ChordLabels] : n \in 0..MaxLen}

\* Two progressions with a label that holds the delimiter of the context keys.
DelimiterProgressions == {<<"C", "G,C">>, <<"C,G", "C">>}

Progressions == CleanProgressions \cup DelimiterProgressions

\* Tables of the worked example: "C,G,Amin" -> F 0.40, C 0.25, Dmin 0.15,
\* Emin 0.10; "G,Amin" -> F 0.35, ...; "Amin" -> F 0.22, C 0.18, ...
ExampleTrigram ==
    "C,G,Amin" :> ("F" :> R(40, 100) @@ "C" :> R(25, 100) @@ "Dmin" :> R(15, 100)
                   @@ "Emin" :> R(10, 100))
    @@ "G,Amin,C" :> ("G" :> R(1, 2) @@ "F" :> R(1, 2))
    @@ "C,C,G" :> ("Amin" :> One)

ExampleBigram ==
    "G,Amin" :> ("F" :> R(35, 100) @@ "C" :> R(45, 100) @@ "G" :> R(20, 100))
    @@ "C,G" :> ("Amin" :> R(3, 4) @@ "C" :> R(1, 4))
    @@ "Amin,C" :> ("G" :> One)

ExampleUnigram ==
    "Amin" :> ("F" :> R(22, 100) @@ "C" :> R(18, 100) @@ "G" :> R(60, 100))
    @@ "G" :> ("Amin" :> R(1, 2) @@ "C" :> R(1, 2))
    @@ "C" :> ("G" :> R(2, 3) @@ "F" :> R(1, 3))

\* Tables with rows that are empty, hold zero entries, or lack a context.
SparseTrigram ==
    "C,G,Amin" :> ("Dmin" :> One)
    @@ "G,Amin,C" :> EmptyObject
    @@ "Amin,Amin,Amin" :> ("F" :> Zero)

SparseBigram ==
    "G,Amin" :> ("F" :> Zero @@ "Emin" :> One)
    @@ "C,G" :> EmptyObject

SparseUnigram ==
    "Amin" :> EmptyObject
    @@ "G" :> ("F" :> Zero)

ModelChoices ==
    {[unigram |-> u, bigram |-> bt[1], trigram |-> bt[2]] :
        u \in {ExampleUnigram, SparseUnigram},
        bt \in {<<ExampleBigram, ExampleTrigram>>, <<SparseBigram, SparseTrigram>>,
                <<ExampleBigram, SparseTrigram>>}}
    \cup {[unigram |-> EmptyObject, bigram |-> EmptyObject, trigram |-> EmptyObject]}

\* Weights a caller may pass: the default, all zero, a triple that does not
\* sum to 1, and a triple with a zero component.
WeightChoices ==
    {DEFAULT_WEIGHTS,
     [lambda3 |-> Zero, lambda2 |-> Zero, lambda1 |-> Zero],
     [lambda3 |-> One, lambda2 |-> One, lambda1 |-> R(1, 2)],
     [lambda3 |-> Zero, lambda2 |-> R(1, 2), lambda1 |-> R(1, 2)]}

CountChoices == {0, 2, 3, MaxCount}

\* Count tables: the contexts of the example tables, all with the same count.
CountTable(model, c) == [context \in DOMAIN model |-> c]

NoMetadata == [given |-> FALSE]

MetadataChoices ==
    {NoMetadata, [given |-> TRUE, tables |-> EmptyObject]}
    \cup
    {[given |-> TRUE,
      tables |-> "unigram_counts" :> CountTable(ExampleUnigram, c1)
                 @@ "bigram_counts" :> CountTable(ExampleBigram, c2)
                 @@ "trigram_counts" :> CountTable(ExampleTrigram, c3)] :
        c1 \in {0, MaxCount}, c2 \in CountChoices, c3 \in CountChoices}

----------------------------------------------------------------------------
(* dataLoader.ts: loadModels, and the mount effect of Home that calls it *)

Null == [kind |-> "null"]

\* lines 21-25
files ==
    <<[name |-> "unigram.json", key |-> "unigram"],
      [name |-> "bigram.json", key |-> "bigram"],
      [name |-> "trigram.json", key |-> "trigram"]>>

\* What the server holds under ${basePath}/data/<name>, as response.json() parses it.
ServerBody(name) ==
    CASE name = "unigram.json" -> ExampleUnigram
      [] name = "bigram.json" -> ExampleBigram
      [] name = "trigram.json" -> ExampleTrigram

\* How a fetch can settle: an OK response, a non-OK response, a rejected promise.
FetchOutcomes == {"ok", "notOk", "networkError"}

\* How response.json() can settle: the parsed body, or a rejection.
JsonOutcomes == {"parsed", "unparsable"}

LoadIds == 1..MaxLoads

\* The call the page's mount effect makes (part_002 line 56).
PageLoad == 1

IdleLoad ==
    [pc |-> "idle", i |-> 0, results |-> EmptyObject, progress |-> <<>>,
     fetched |-> <<>>, response |-> "none", value |-> Null, error |-> ""]

\* A plausible slip: the number of the file being fetched counted as loaded.
ProgressAt_OneBased(i) ==
    [loaded |-> i + 1, total |-> Len(files), currentFile |-> files[i + 1].name]

\* lines 32-36: onProgress?.({loaded: i, total: files.length, currentFile: file.name})
ProgressAt(i) == [loaded |-> i, total |-> Len(files), currentFile |-> files[i + 1].name]

\* lines 46-50
ProgressComplete == [loaded |-> Len(files), total |-> Len(files), currentFile |-> "Complete"]

\* line 61: the error every failure is rethrown as
LoadError == "Failed to load probability models"

\* part_002 line 60
PageErrorText ==
    "Failed to load probability models. Please ensure the JSON files are in /public/data/"

\* The page's onProgress callback: setLoadProgress(progress) (part_002 line 56).
ReportProgress(c, progress) ==
    IF c = PageLoad THEN [page EXCEPT !.loadProgress = progress] ELSE page

\* lines 30-38: one loop iteration up to the await of fetch
StartIteration(load, i) ==
    [load EXCEPT !.pc = "fetching",
                 !.i = i,
                 !.progress = Append(@, ProgressAt(i)),
                 !.fetched = Append(@, files[i + 1].name)]

\* lines 59-62: the catch block
RejectLoad(load) == [load EXCEPT !.pc = "rejected", !.error = LoadError]

\* A plausible slip: the response.ok test left out, so only a rejected fetch fails.
FetchFailed_NoStatusCheck(outcome) == outcome = "networkError"

\* lines 39-42: fetch rejected, or resolved with !response.ok
FetchFailed(outcome) == outcome # "ok"

\* A plausible slip: every call returned the object it built itself, the cache ignored.
CacheHit_Never(cache) == FALSE

\* line 15: if (cachedModels)
CacheHit(cache) == cache # Null

\* lines 11-38: the call up to its first await (or its return from the cache)
LoadModelsCall(c) ==
    /\ loads[c].pc = "idle"
    /\ IF CacheHit(cachedModels)
       THEN /\ loads' = [loads EXCEPT ![c] = [@ EXCEPT !.pc = "resolved",
                                                        !.value = cachedModels]]
            /\ page' = page
       ELSE /\ loads' = [loads EXCEPT ![c] = StartIteration(@, 0)]
            /\ page' = ReportProgress(c, ProgressAt(0))
    /\ UNCHANGED cachedModels

\* lines 39-43: the awaited fetch settles
FetchSettles(c, outcome) ==
    /\ loads[c].pc = "fetching"
    /\ loads' = [loads EXCEPT ![c] =
                    IF FetchFailed(outcome)
                    THEN RejectLoad([@ EXCEPT !.response = outcome])
                    ELSE [@ EXCEPT !.pc = "parsing", !.response = outcome]]
    /\ UNCHANGED <<cachedModels, page>>

\* lines 43-58: the awaited response.json() settles; the next iteration starts or
\* the loop ends, the cache is filled and the call returns
JsonSettles(c, outcome) ==
    /\ loads[c].pc = "parsing"
    /\ LET load == loads[c]
           file == files[load.i + 1]
           results == (file.key :> ServerBody(file.name)) @@ load.results
           built == [kind |-> "Models", id |-> c,
                     unigram |-> results["unigram"],
                     bigram |-> results["bigram"],
                     trigram |-> results["trigram"]]
       IN  IF outcome = "unparsable"
           THEN /\ loads' = [loads EXCEPT ![c] = RejectLoad([@ EXCEPT !.response = outcome])]
                /\ UNCHANGED <<cachedModels, page>>
           ELSE IF load.i + 1 < Len(files)
           THEN /\ loads' = [loads EXCEPT ![c] =
                                StartIteration([@ EXCEPT !.results = results,
                                                         !.response = outcome],
                                               load.i + 1)]
                /\ page' = ReportProgress(c, ProgressAt(load.i + 1))
                /\ UNCHANGED cachedModels
           ELSE /\ cachedModels' = built
                /\ loads' = [loads EXCEPT ![c] =
                                [@ EXCEPT !.pc = "resolved",
                                          !.results = results,
                                          !.response = outcome,
                                          !.progress = Append(@, ProgressComplete),
                                          !.value = built]]
                /\ page' = ReportProgress(c, ProgressComplete)

\* part_002 lines 57-62: .then(setModels).catch(setError(...)).finally(setLoading(false))
PageLoadSettled ==
    /\ page.loading
    /\ loads[PageLoad].pc \in {"resolved", "rejected"}
    /\ page' = IF loads[PageLoad].pc = "resolved"
               THEN [page EXCEPT !.models = loads[PageLoad].value, !.loading = FALSE]
               ELSE [page EXCEPT !.error = PageErrorText, !.loading = FALSE]
    /\ UNCHANGED <<cachedModels, loads>>

\* dataLoader.ts line 3 and part_002 lines 45-48: the state before the mount effect
LoaderInit ==
    /\ cachedModels = Null
    /\ loads = [c \in LoadIds |-> IdleLoad]
    /\ page = [models |-> Null, loading |-> TRUE, error |-> "",
               loadProgress |-> [loaded |-> 0, total |-> 3, currentFile |-> ""]]

----------------------------------------------------------------------------
(* CountAggregator (spec.md 4.1, 7): ingest and merge. The backend that      *)
(* builds the counts is not among the source files; this part follows the   *)
(* specification.                                                           *)

PlainTokens == {"C", "G"}

\* Tokens that contain the reserved delimiter ','.
DelimiterTokens == {Join(<<a, b>>) : a, b \in PlainTokens}

HasDelimiter(token) == token \in DelimiterTokens

\* The sequences handed to ingest: long enough for order 3, too short for an
\* order, empty, and with a delimiter token first or later.
Corpus ==
    {<<"C", "G", "C", "G">>,
     <<"G", "C", "G">>,
     <<"C", "G">>,
     <<>>,
     <<"C", "G", "C,G", "G">>,
     <<"C,G", "C">>}

Shards == {1, 2, 3}

NoCounts == <<>>

CountOf(counts, key) == IF key \in DOMAIN counts THEN counts[key] ELSE 0

Increment(counts, key) ==
    [k \in DOMAIN counts \cup {key} |-> CountOf(counts, k) + (IF k = key THEN 1 ELSE 0)]

\* A plausible slip: the order-3 record starts one position late.
RecordAt_Order3Late(counts, seq, i) ==
    LET c1 == IF i >= 2 THEN Increment(counts, <<1, seq[i - 1], seq[i]>>) ELSE counts
        c2 == IF i >= 3
              THEN Increment(c1, <<2, Join(SubSeq(seq, i - 2, i - 1)), seq[i]>>)
              ELSE c1
        c3 == IF i >= 5
              THEN Increment(c2, <<3, Join(SubSeq(seq, i - 3, i - 1)), seq[i]>>)
              ELSE c2
    IN  c3

\* The records of position i (1-indexed): order n when i >= n + 1.
RecordAt(counts, seq, i) ==
    LET c1 == IF i >= 2 THEN Increment(counts, <<1, seq[i - 1], seq[i]>>) ELSE counts
        c2 == IF i >= 3
              THEN Increment(c1, <<2, Join(SubSeq(seq, i - 2, i - 1)), seq[i]>>)
              ELSE c1
        c3 == IF i >= 4
              THEN Increment(c2, <<3, Join(SubSeq(seq, i - 3, i - 1)), seq[i]>>)
              ELSE c2
    IN  c3

RECURSIVE RecordFrom(_, _, _)
RecordFrom(counts, seq, i) ==
    IF i > Len(seq) THEN counts
    ELSE RecordFrom(RecordAt(counts, seq, i), seq, i + 1)

Collides(seq) == \E i \in 1..Len(seq) : HasDelimiter(seq[i])

\* A plausible slip: tokens checked while counting, so the positions before the
\* offending token are already recorded when the error is raised.
RECURSIVE RecordUntilCollision(_, _, _)
RecordUntilCollision(counts, seq, i) ==
    IF i > Len(seq) \/ HasDelimiter(seq[i]) THEN counts
    ELSE RecordUntilCollision(RecordAt(counts, seq, i), seq, i + 1)

IngestCounts_CheckWhileCounting(counts, seq) == RecordUntilCollision(counts, seq, 1)

\* ingest(sequence): every token is checked before anything is counted.
IngestCounts(counts, seq) ==
    IF Collides(seq) THEN counts ELSE RecordFrom(counts, seq, 1)

IngestOutcome(seq) == IF Collides(seq) THEN "DelimiterCollision" ELSE "ok"

\* A plausible slip: a key both aggregators hold takes the other's count.
MergeCounts_Overwrite(a, b) ==
    [k \in DOMAIN a \cup DOMAIN b |-> IF k \in DOMAIN b THEN b[k] ELSE a[k]]

\* merge(other): counts summed per (order, context, next-token).
MergeCounts(a, b) ==
    [k \in DOMAIN a \cup DOMAIN b |-> CountOf(a, k) + CountOf(b, k)]

AggInit ==
    /\ aggs = [sh \in Shards |-> NoCounts]
    /\ live = Shards
    /\ whole = NoCounts
    /\ ingests = 0
    /\ lastOp = [op |-> "none"]

Ingest(sh, seq) ==
    /\ sh \in live
    /\ ingests < MaxIngests
    /\ ingests' = ingests + 1
    /\ aggs' = [aggs EXCEPT ![sh] = IngestCounts(@, seq)]
    /\ whole' = IF Collides(seq) THEN whole ELSE RecordFrom(whole, seq, 1)
    /\ lastOp' = [op |-> "ingest", shard |-> sh, seq |-> seq, n |-> ingests + 1,
                  outcome |-> IngestOutcome(seq)]
    /\ UNCHANGED live

\* a.merge(b); b is not used afterwards.
Merge(a, b) ==
    /\ a \in live
    /\ b \in live
    /\ a # b
    /\ aggs' = [aggs EXCEPT ![a] = MergeCounts(@, aggs[b])]
    /\ live' = live \ {b}
    /\ lastOp' = [op |-> "merge", into |-> a, from |-> b]
    /\ UNCHANGED <<whole, ingests>>

----------------------------------------------------------------------------
(* Home (part_002): the progression, its handlers and the probability effect *)

MaxSaved == 1

\* part_002 lines 49-51 and the effect of lines 65-72 not yet run
HomeInit ==
    home = [progression |-> <<>>,
            nextChordProbs |-> EmptyObject,
            savedProgressions |-> <<>>,
            nextId |-> 1,
            effectDeps |-> [ran |-> FALSE, progression |-> <<>>, models |-> Null]]

\* The dependencies [progression, models] differ from those of the last run.
EffectPending ==
    \/ ~home.effectDeps.ran
    \/ home.effectDeps.progression # home.progression
    \/ home.effectDeps.models # page.models

\* part_002 lines 153-194: the page proper is rendered once loading has ended
\* without an error. React runs the effects of the render a click has caused
\* before it handles the next event, so a handler finds no effect pending.
PageShown == ~page.loading /\ page.error = "" /\ ~EffectPending

\* The chord buttons on the page: the contexts of the unigram table while the
\* progression is empty (lines 238-260), the predicted chords otherwise
\* (lines 262-267, ProbabilityBubbles).
ClickableChords ==
    IF home.progression = <<>>
    THEN IF page.models # Null THEN DOMAIN page.models.unigram ELSE {}
    ELSE DOMAIN home.nextChordProbs

\* A plausible slip: filter by label, which drops every occurrence of the chord.
RECURSIVE WithoutLabel(_, _)
WithoutLabel(arr, label) ==
    IF arr = <<>> THEN <<>>
    ELSE IF Head(arr) = label THEN WithoutLabel(Tail(arr), label)
    ELSE <<Head(arr)>> \o WithoutLabel(Tail(arr), label)

RemoveAt_ByLabel(arr, index) ==
    IF index + 1 \in 1..Len(arr) THEN WithoutLabel(arr, arr[index + 1]) ELSE arr

\* progression.filter((_, i) => i !== index), index counted from 0
RemoveAt(arr, index) ==
    [k \in 1..(Len(arr) - (IF index + 1 \in 1..Len(arr) THEN 1 ELSE 0)) |->
        IF k < index + 1 THEN arr[k] ELSE arr[k + 1]]

\* Every chord label of the served tables.
TableChords(table) == UNION {DOMAIN table[context] : context \in DOMAIN table}

PageChords ==
    DOMAIN ServerBody("unigram.json")
        \cup UNION {TableChords(ServerBody(files[k].name)) : k \in 1..Len(files)}

\* lines 85-87
handleChordClick(chord) ==
    /\ PageShown
    /\ chord \in ClickableChords
    /\ Len(home.progression) < MaxLen
    /\ home' = [home EXCEPT !.progression = Append(@, chord)]
    /\ UNCHANGED page

\* lines 89-91, called by ProgressionBar with the index of the clicked chord
handleRemoveChord(index) ==
    /\ PageShown
    /\ index \in 0..(Len(home.progression) - 1)
    /\ home' = [home EXCEPT !.progression = RemoveAt(@, index)]
    /\ UNCHANGED page

\* lines 93-95; the Clear button is there while the progression is not empty
handleClear ==
    /\ PageShown
    /\ home.progression # <<>>
    /\ home' = [home EXCEPT !.progression = <<>>]
    /\ UNCHANGED page

\* lines 97-107: a new entry, with a fresh id, in front of the others. Explored
\* for the first MaxSaved saves, of progressions of up to MaxSaved chords.
handleSaveProgression ==
    /\ PageShown
    /\ home.progression # <<>>
    /\ home.nextId <= MaxSaved
    /\ Len(home.progression) <= MaxSaved
    /\ home' = [home EXCEPT
                  !.savedProgressions =
                      <<[id |-> home.nextId, chords |-> home.progression]>> \o @,
                  !.nextId = @ + 1]
    /\ UNCHANGED page

\* lines 109-111
handleRemoveSavedProgression(id) ==
    /\ PageShown
    /\ \E k \in 1..Len(home.savedProgressions) : home.savedProgressions[k].id = id
    /\ home' = [home EXCEPT
                  !.savedProgressions = SelectSeq(@, LAMBDA p : p.id # id)]
    /\ UNCHANGED page

\* What the effect of lines 65-72 stores.
ProbsFor(prog, m) ==
    IF m # Null /\ Len(prog) > 0
    THEN computeProbabilities(prog, m, DEFAULT_WEIGHTS, NoMetadata)
    ELSE EmptyObject

\* A plausible slip: the effect returning early on an empty progression, so
\* the old predictions stay.
ProbsAfterEffect_KeepOnEmpty(prog, m, old) ==
    IF Len(prog) = 0 THEN old ELSE ProbsFor(prog, m)

ProbsAfterEffect(prog, m, old) == ProbsFor(prog, m)

\* lines 65-72: the effect, run after a render in which a dependency changed
ProbabilityEffect ==
    /\ EffectPending
    /\ home' = [home EXCEPT
                  !.nextChordProbs =
                      ProbsAfterEffect(home.progression, page.models, @),
                  !.effectDeps = [ran |-> TRUE, progression |-> home.progression,
                                  models |-> page.models]]
    /\ UNCHANGED page

----------------------------------------------------------------------------
(* midi (part_004) and the playback handlers of Home *)

MaxCalls == 3

\* The listener Home registers (part_002 lines 74-83) and one other subscriber.
Listeners == {"page", "other"}

\* part_004 lines 148-149, part_002 lines 52-53, after Home's mount effects
MidiInit ==
    /\ isPlaying = FALSE
    /\ playTimeoutRef = 0
    /\ timers = {}
    /\ timerCount = 0
    /\ audioContext = 0
    /\ contexts = <<>>
    /\ stopListeners = {"page"}
    /\ midiCalls = <<>>
    /\ heard = [l \in Listeners |-> 0]
    /\ stopDone = FALSE

\* The playback state a handler's synchronous run works on.
MidiState ==
    [isPlaying |-> isPlaying, ref |-> playTimeoutRef, timers |-> timers,
     timerCount |-> timerCount, audioContext |-> audioContext,
     contexts |-> contexts, heard |-> heard, stopDone |-> stopDone]

SetMidi(st) ==
    /\ isPlaying' = st.isPlaying
    /\ playTimeoutRef' = st.ref
    /\ timers' = st.timers
    /\ timerCount' = st.timerCount
    /\ audioContext' = st.audioContext
    /\ contexts' = st.contexts
    /\ heard' = st.heard
    /\ stopDone' = st.stopDone

\* if (playTimeoutRef.current) { window.clearTimeout(playTimeoutRef.current); }
ClearRefTimer(st) == [st EXCEPT !.timers = @ \ {st.ref}]

\* part_002 lines 75-81: Home's stop listener
PageListener(st) ==
    [ClearRefTimer(st) EXCEPT !.ref = 0, !.isPlaying = FALSE]

\* A plausible slip: a listener that unsubscribed is still called.
ListenersCalled_All(registered) == Listeners

\* part_004 line 212: stopListeners.forEach((listener) => listener())
ListenersCalled(registered) == registered

NotifyListeners(st) ==
    LET called == ListenersCalled(stopListeners)
        told == [st EXCEPT !.heard = [l \in Listeners |->
                                         IF l \in called THEN @[l] + 1 ELSE @[l]]]
    IN  IF "page" \in called THEN PageListener(told) ELSE told

\* A plausible slip: the catch block only logging the error.
AfterPlayError_OnlyLogged(playing) == playing

\* part_002 lines 137-140: catch (err) { ...; setIsPlaying(false); }
AfterPlayError(playing) == FALSE

\* part_002 lines 133-136: the old timer cleared, a new one set for the duration
SetPlayTimer(st) ==
    LET id == st.timerCount + 1
    IN  [ClearRefTimer(st) EXCEPT !.timers = @ \cup {id}, !.ref = id, !.timerCount = id]

\* How a new AudioContext starts (part_004 lines 156-164): running, suspended
\* until resumed, or none where the browser has no AudioContext.
FreshContexts == {"running", "suspended", "none"}

\* part_004 lines 201-205: stopChordProgression up to its await of ctx.close()
StopBegins(st) ==
    IF st.audioContext = 0
    THEN [st |-> st, awaiting |-> FALSE, ctx |-> 0]
    ELSE [st |-> [st EXCEPT !.audioContext = 0], awaiting |-> TRUE,
          ctx |-> st.audioContext]

\* part_002 lines 131-136 with part_004 lines 166-173: handlePlayMidi from
\* setIsPlaying(true) to its await of ctx.resume(), or to its end when the
\* context needs no resuming.
PlayContinues(st, fresh) ==
    LET s1 == [st EXCEPT !.isPlaying = TRUE]
        s2 == IF s1.audioContext = 0 /\ fresh # "none"
              THEN [s1 EXCEPT !.contexts = Append(@, fresh),
                              !.audioContext = Len(s1.contexts) + 1]
              ELSE s1
    IN  IF s2.audioContext = 0
        THEN [st |-> SetPlayTimer(s2), pc |-> "done", ctx |-> 0]
        ELSE IF s2.contexts[s2.audioContext] = "suspended"
        THEN [st |-> s2, pc |-> "resuming", ctx |-> s2.audioContext]
        ELSE [st |-> SetPlayTimer(s2), pc |-> "done", ctx |-> s2.audioContext]

MidiCall(kind, at, ctx, acted) == [kind |-> kind, pc |-> at, ctx |-> ctx, acted |-> acted]

EndCall(c) == midiCalls' = [midiCalls EXCEPT ![c].pc = "done"]

\* part_002 lines 127-142: a call of handlePlayMidi, up to its first await
\* that has to wait
handlePlayMidi(fresh) ==
    /\ Len(midiCalls) < MaxCalls
    /\ IF home.progression = <<>> \/ isPlaying
       THEN /\ midiCalls' = Append(midiCalls, MidiCall("play", "done", 0, FALSE))
            /\ SetMidi(MidiState)
       ELSE LET b == StopBegins([MidiState EXCEPT !.stopDone = FALSE])
                p == PlayContinues(b.st, fresh)
            IN  IF b.awaiting
                THEN /\ SetMidi(b.st)
                     /\ midiCalls' = Append(midiCalls, MidiCall("play", "closing", b.ctx, TRUE))
                ELSE /\ SetMidi(p.st)
                     /\ midiCalls' = Append(midiCalls, MidiCall("play", p.pc, p.ctx, TRUE))
    /\ UNCHANGED stopListeners

\* part_002 lines 143-151: a call of handleStopMidi, up to its await
handleStopMidi ==
    /\ Len(midiCalls) < MaxCalls
    /\ IF ~isPlaying
       THEN /\ midiCalls' = Append(midiCalls, MidiCall("stop", "done", 0, FALSE))
            /\ SetMidi(MidiState)
       ELSE LET b == StopBegins([ClearRefTimer(MidiState) EXCEPT !.ref = 0])
            IN  IF b.awaiting
                THEN /\ SetMidi(b.st)
                     /\ midiCalls' = Append(midiCalls, MidiCall("stop", "closing", b.ctx, TRUE))
                ELSE /\ SetMidi([b.st EXCEPT !.isPlaying = FALSE, !.stopDone = TRUE])
                     /\ midiCalls' = Append(midiCalls, MidiCall("stop", "done", 0, TRUE))
    /\ UNCHANGED stopListeners

\* part_004 lines 206-213: ctx.close() settles, the listeners are called, and
\* the handler that awaited stopChordProgression goes on
CloseSettles(c, outcome, fresh) ==
    /\ c \in 1..Len(midiCalls)
    /\ midiCalls[c].pc = "closing"
    /\ LET call == midiCalls[c]
           s0 == [MidiState EXCEPT !.contexts[call.ctx] =
                                       IF outcome = "closed" THEN "closed" ELSE @]
           s1 == NotifyListeners(s0)
           p == PlayContinues(s1, fresh)
       IN  IF call.kind = "stop"
           THEN /\ SetMidi([s1 EXCEPT !.isPlaying = FALSE, !.stopDone = TRUE])
                /\ EndCall(c)
           ELSE /\ SetMidi(p.st)
                /\ midiCalls' = [midiCalls EXCEPT ![c].pc = p.pc, ![c].ctx = p.ctx]
    /\ UNCHANGED stopListeners

\* part_004 lines 171-173 and part_002 lines 132-140: ctx.resume() settles; the
\* notes are scheduled and the timer set, or the error is caught
ResumeSettles(c, outcome) ==
    /\ c \in 1..Len(midiCalls)
    /\ midiCalls[c].pc = "resuming"
    /\ LET call == midiCalls[c]
           s0 == [MidiState EXCEPT !.contexts[call.ctx] =
                                       IF @ = "suspended" THEN "running" ELSE @]
       IN  IF outcome = "resolved"
           THEN SetMidi(SetPlayTimer(s0))
           ELSE SetMidi([MidiState EXCEPT !.isPlaying = AfterPlayError(@)])
    /\ EndCall(c)
    /\ UNCHANGED stopListeners

\* part_002 line 136: the timer's callback, () => setIsPlaying(false)
TimerFires(t) ==
    /\ t \in timers
    /\ SetMidi([MidiState EXCEPT !.timers = @ \ {t}, !.isPlaying = FALSE])
    /\ UNCHANGED <<stopListeners, midiCalls>>

\* part_004 lines 151-154: stopListeners.add(listener)
onPlaybackStopped(listener) ==
    /\ listener \notin stopListeners
    /\ stopListeners' = stopListeners \cup {listener}
    /\ SetMidi(MidiState)
    /\ UNCHANGED midiCalls

\* part_004 line 153: the function returned, () => stopListeners.delete(listener)
Unsubscribe(listener) ==
    /\ listener \in stopListeners
    /\ stopListeners' = stopListeners \ {listener}
    /\ SetMidi(MidiState)
    /\ UNCHANGED midiCalls

----------------------------------------------------------------------------
(* The state machine: one call of computeProbabilities on drawn arguments *)

EngineInit ==
    /\ progression \in Progressions
    /\ models \in ModelChoices
    /\ weights \in WeightChoices
    /\ metadata \in MetadataChoices
    /\ pc = "ready"
    /\ contextCounts = EmptyObject
    /\ lambdas = weights
    /\ adjustedWeights = weights
    /\ consulted = {}
    /\ allNextChords = {}
    /\ blended = EmptyObject
    /\ result = EmptyObject

\* One call of computeProbabilities on the objects the variables hold.
CallFrom(before, after) ==
    /\ pc = before
    /\ LET out == Compute(progression, models, weights, metadata)
       IN  /\ contextCounts' = out.contextCounts
           /\ lambdas' = out.lambdas
           /\ adjustedWeights' = out.adjustedWeights
           /\ consulted' = out.consulted
           /\ allNextChords' = out.allNextChords
           /\ blended' = out.blended
           /\ result' = out.result
    /\ pc' = after
    /\ weights' = WeightsAfterCall(progression, weights, metadata)
    /\ models' = ModelsAfterCall(progression, models)
    /\ UNCHANGED <<progression, metadata>>
    /\ UNCHANGED <<loaderVars, aggVars, homeVars, midiVars>>

Init == EngineInit /\ LoaderInit /\ AggInit /\ HomeInit /\ MidiInit

ComputeProbabilitiesCall == CallFrom("ready", "done")

\* The caller calls again with the same objects (as the page does with its
\* models and DEFAULT_WEIGHTS whenever the progression state is set).
ComputeProbabilitiesAgain == CallFrom("done", "repeated")

Next ==
    \/ ComputeProbabilitiesCall
    \/ ComputeProbabilitiesAgain

Spec == Init /\ [][Next]_vars

----------------------------------------------------------------------------
(* The state machine of the loader: loadModels calls, started at any time,  *)
(* each resuming when its awaited promise settles                           *)

\* No call of computeProbabilities is under way.
EngineIdle ==
    /\ progression = <<>>
    /\ models = [unigram |-> EmptyObject, bigram |-> EmptyObject, trigram |-> EmptyObject]
    /\ weights = DEFAULT_WEIGHTS
    /\ metadata = NoMetadata
    /\ pc = "ready"
    /\ contextCounts = EmptyObject
    /\ lambdas = weights
    /\ adjustedWeights = weights
    /\ consulted = {}
    /\ allNextChords = {}
    /\ blended = EmptyObject
    /\ result = EmptyObject

InitLoad == EngineIdle /\ LoaderInit /\ AggInit /\ HomeInit /\ MidiInit

NextLoad ==
    \/ \E c \in LoadIds : LoadModelsCall(c) /\ UNCHANGED <<engineVars, aggVars, homeVars, midiVars>>
    \/ \E c \in LoadIds, o \in FetchOutcomes :
            FetchSettles(c, o) /\ UNCHANGED <<engineVars, aggVars, homeVars, midiVars>>
    \/ \E c \in LoadIds, o \in JsonOutcomes :
            JsonSettles(c, o) /\ UNCHANGED <<engineVars, aggVars, homeVars, midiVars>>
    \/ PageLoadSettled /\ UNCHANGED <<engineVars, aggVars, homeVars, midiVars>>

SpecLoad == InitLoad /\ [][NextLoad]_vars

----------------------------------------------------------------------------
(* The state machine of the aggregator: sharded ingestion and merging *)

InitAgg == EngineIdle /\ LoaderInit /\ AggInit /\ HomeInit /\ MidiInit

NextAgg ==
    \/ \E sh \in Shards, seq \in Corpus :
            Ingest(sh, seq) /\ UNCHANGED <<engineVars, loaderVars, homeVars, midiVars>>
    \/ \E a, b \in Shards : Merge(a, b) /\ UNCHANGED <<engineVars, loaderVars, homeVars, midiVars>>

SpecAgg == InitAgg /\ [][NextAgg]_vars

----------------------------------------------------------------------------
(* The state machine of the page: the mount effect's load, the chord and    *)
(* save handlers, and the probability effect                                *)

InitPage == EngineIdle /\ LoaderInit /\ AggInit /\ HomeInit /\ MidiInit

PageFrame == UNCHANGED <<engineVars, aggVars, midiVars, cachedModels, loads>>

LoadFrame == UNCHANGED <<engineVars, aggVars, midiVars, homeVars>>

NextPage ==
    \/ LoadModelsCall(PageLoad) /\ LoadFrame
    \/ \E o \in FetchOutcomes : FetchSettles(PageLoad, o) /\ LoadFrame
    \/ \E o \in JsonOutcomes : JsonSettles(PageLoad, o) /\ LoadFrame
    \/ PageLoadSettled /\ LoadFrame
    \/ \E chord \in PageChords : handleChordClick(chord) /\ PageFrame
    \/ \E index \in 0..(MaxLen - 1) : handleRemoveChord(index) /\ PageFrame
    \/ handleClear /\ PageFrame
    \/ handleSaveProgression /\ PageFrame
    \/ \E id \in 1..MaxSaved : handleRemoveSavedProgression(id) /\ PageFrame
    \/ ProbabilityEffect /\ PageFrame

SpecPage == InitPage /\ [][NextPage]_vars

----------------------------------------------------------------------------
(* The state machine of playback: play and stop requests on a loaded page,  *)
(* the promises of close() and resume() settling, the timer expiring        *)

\* The Models object the page's load has built, and the load that built it.
LoadedModels ==
    [kind |-> "Models", id |-> PageLoad,
     unigram |-> ServerBody("unigram.json"),
     bigram |-> ServerBody("bigram.json"),
     trigram |-> ServerBody("trigram.json")]

LoadedCall ==
    [pc |-> "resolved", i |-> 2,
     results |-> [k \in {"unigram", "bigram", "trigram"} |-> LoadedModels[k]],
     progress |-> <<ProgressAt(0), ProgressAt(1), ProgressAt(2), ProgressComplete>>,
     fetched |-> [k \in 1..Len(files) |-> files[k].name],
     response |-> "parsed", value |-> LoadedModels, error |-> ""]

\* The page after its load, with no chord yet or with one clicked.
PageLoaded(prog) ==
    /\ cachedModels = LoadedModels
    /\ loads = [c \in LoadIds |-> IF c = PageLoad THEN LoadedCall ELSE IdleLoad]
    /\ page = [models |-> LoadedModels, loading |-> FALSE, error |-> "",
               loadProgress |-> ProgressComplete]
    /\ home = [progression |-> prog,
               nextChordProbs |-> ProbsFor(prog, LoadedModels),
               savedProgressions |-> <<>>,
               nextId |-> 1,
               effectDeps |-> [ran |-> TRUE, progression |-> prog, models |-> LoadedModels]]

InitMidi ==
    /\ EngineIdle
    /\ AggInit
    /\ MidiInit
    /\ \E prog \in {<<>>, <<"C">>} : PageLoaded(prog)

MidiFrame == UNCHANGED <<engineVars, loaderVars, aggVars, homeVars>>

NextMidi ==
    \/ \E fresh \in FreshContexts : handlePlayMidi(fresh) /\ MidiFrame
    \/ handleStopMidi /\ MidiFrame
    \/ \E c \in 1..MaxCalls, outcome \in {"closed", "failed"}, fresh \in FreshContexts :
            CloseSettles(c, outcome, fresh) /\ MidiFrame
    \/ \E c \in 1..MaxCalls, outcome \in {"resolved", "rejected"} :
            ResumeSettles(c, outcome) /\ MidiFrame
    \/ \E t \in 1..MaxCalls : TimerFires(t) /\ MidiFrame
    \/ onPlaybackStopped("other") /\ MidiFrame
    \/ Unsubscribe("other") /\ MidiFrame

SpecMidi == InitMidi /\ [][NextMidi]_vars

\* Promises settle and timers expire; requests are up to the user.
MidiFairness ==
    /\ \A c \in 1..MaxCalls :
          /\ WF_vars(\E outcome \in {"closed", "failed"}, fresh \in FreshContexts :
                        CloseSettles(c, outcome, fresh) /\ MidiFrame)
          /\ WF_vars(\E outcome \in {"resolved", "rejected"} :
                        ResumeSettles(c, outcome) /\ MidiFrame)
    /\ \A t \in 1..MaxCalls : WF_vars(TimerFires(t) /\ MidiFrame)

SpecMidiFair == SpecMidi /\ MidiFairness

----------------------------------------------------------------------------
(* Vocabulary of the properties, read from the arguments of the call *)

Done == pc = "done"

Key1 == LastChord(progression)

Key2 == Join(SliceLast(progression, 2))

Key3 == Join(SliceLast(progression, 3))

\* The count the supplied metadata holds for a context; 0 when it holds none.
GivenCount(table, context) ==
    IF /\ metadata.given
       /\ table \in DOMAIN metadata.tables
       /\ context \in DOMAIN metadata.tables[table]
    THEN metadata.tables[table][context]
    ELSE 0

\* An order's context is present (long enough progression, metadata supplied).
Present2 == Len(progression) >= 2 /\ metadata.given

Present3 == Len(progression) >= 3 /\ metadata.given

Strong2 == Present2 /\ GivenCount("bigram_counts", Key2) >= 3

Strong3 == Present3 /\ GivenCount("trigram_counts", Key3) >= 3

WeightSum(w) == RAdd(RAdd(w.lambda1, w.lambda2), w.lambda3)

\* The row a table holds for a context (no row: no chords).
RowOf(model, context) == IF context \in DOMAIN model THEN model[context] ELSE <<>>

ExampleModels == [unigram |-> ExampleUnigram, bigram |-> ExampleBigram, trigram |-> ExampleTrigram]

ExampleProgression == <<"C", "G", "Amin">>

----------------------------------------------------------------------------
(* C1: for a non-empty progression, a non-empty result holds only strictly  *)
(* positive values and they sum to 1; chords whose blended score is 0 are   *)
(* not in it.                                                               *)
C1_ResultIsDistribution ==
    (Done /\ Len(progression) > 0 /\ DOMAIN result # {}) =>
        /\ \A chord \in DOMAIN result : RGt(result[chord], Zero)
        /\ RSum(result, DOMAIN result) = One
        /\ DOMAIN result = DOMAIN blended

\* A call whose blended scores did not sum to 1 and where a candidate chord
\* (a zero entry of the bigram row) was dropped.
C1_Witness ==
    /\ Done
    /\ Cardinality(DOMAIN result) >= 2
    /\ RSum(blended, DOMAIN blended) # One
    /\ 2 \in consulted
    /\ \E chord \in DOMAIN RowOf(models.bigram, Key2) : chord \notin DOMAIN result

(* C2: an empty progression returns the empty mapping, whatever the tables, *)
(* weights and metadata are, and no table is consulted.                     *)
C2_EmptyProgressionEmptyResult ==
    (Done /\ Len(progression) = 0) =>
        /\ result = EmptyObject
        /\ consulted = {}

\* An empty progression called with non-empty tables and with metadata.
C2_Witness ==
    /\ Done
    /\ Len(progression) = 0
    /\ models = ExampleModels
    /\ metadata.given
    /\ weights = DEFAULT_WEIGHTS

(* C3: with three or more chords and both the order-3 and the order-2       *)
(* context count >= 3, weights that sum to 1 are returned unchanged         *)
(* (0.60/0.30/0.10 stay 0.60/0.30/0.10), and in Scenario A the blended      *)
(* score of "F" before the final normalization is 0.367.                    *)
ScenarioA ==
    /\ progression = ExampleProgression
    /\ models = ExampleModels
    /\ weights = DEFAULT_WEIGHTS
    /\ Strong3
    /\ Strong2

C3_StrongContextsKeepWeights ==
    (Done /\ Strong3 /\ Strong2) =>
        /\ WeightSum(weights) = One => adjustedWeights = weights
        /\ weights = DEFAULT_WEIGHTS =>
              /\ adjustedWeights.lambda3 = R(60, 100)
              /\ adjustedWeights.lambda2 = R(30, 100)
              /\ adjustedWeights.lambda1 = R(10, 100)
        /\ ScenarioA => "F" \in DOMAIN blended /\ blended["F"] = R(367, 1000)

C3_Witness ==
    /\ Done
    /\ ScenarioA
    /\ GivenCount("trigram_counts", Key3) = 5
    /\ GivenCount("bigram_counts", Key2) = 5
    /\ consulted = {1, 2, 3}

(* C4: with the default weights, three chords, an unseen order-3 context    *)
(* (count 0) and an order-2 count >= 3, the adjusted weights are            *)
(* 0.30/0.48/0.22, the order-3 table is not consulted, no chord found only  *)
(* in the order-3 row is returned, and the result is the same whatever the  *)
(* order-3 table holds.                                                     *)
ScenarioB ==
    /\ Len(progression) = 3
    /\ weights = DEFAULT_WEIGHTS
    /\ metadata.given
    /\ GivenCount("trigram_counts", Key3) = 0
    /\ Strong2

OnlyInTrigramRow ==
    DOMAIN RowOf(models.trigram, Key3)
        \ (DOMAIN RowOf(models.bigram, Key2) \cup DOMAIN RowOf(models.unigram, Key1))

C4_UnseenTrigramExcluded ==
    (Done /\ ScenarioB) =>
        /\ adjustedWeights = [lambda3 |-> R(30, 100), lambda2 |-> R(48, 100),
                              lambda1 |-> R(22, 100)]
        /\ WeightSum(adjustedWeights) = One
        /\ 3 \notin consulted
        /\ OnlyInTrigramRow \cap DOMAIN result = {}
        /\ \A t \in {ExampleTrigram, SparseTrigram, EmptyObject} :
              computeProbabilities(progression, [models EXCEPT !.trigram = t],
                                   weights, metadata) = result

\* Scenario B on the example tables: "Dmin" and "Emin" are only in the
\* order-3 row, and the result is not empty.
C4_Witness ==
    /\ Done
    /\ ScenarioB
    /\ progression = ExampleProgression
    /\ models = ExampleModels
    /\ OnlyInTrigramRow = {"Dmin", "Emin"}
    /\ DOMAIN result = {"F", "C", "G"}

(* C5: the order-3 step runs before the order-2 step, and the order-2 step  *)
(* halves the lambda2 that already holds the share it got from the order-3  *)
(* step: with both contexts weak or absent, (l3, l2, l1) becomes            *)
(* l3/2, (l2 + 0.3*l3)/2, l1 + 0.2*l3 + (l2 + 0.3*l3)/2 after the two       *)
(* steps, which is also what is returned when the base weights sum to 1;    *)
(* 0.60/0.30/0.10 becomes 0.30/0.24/0.46.                                   *)
BothWeak == Len(progression) >= 1 /\ ~Strong3 /\ ~Strong2

BothWeakExpected(w) ==
    LET l2a == RAdd(w.lambda2, RMul(R(3, 10), w.lambda3))
    IN  [lambda3 |-> RDiv(w.lambda3, R(2, 1)),
         lambda2 |-> RDiv(l2a, R(2, 1)),
         lambda1 |-> RAdd(RAdd(w.lambda1, RMul(R(2, 10), w.lambda3)), RDiv(l2a, R(2, 1)))]

C5_BackoffStepsInOrder ==
    (Done /\ BothWeak) =>
        /\ lambdas = BothWeakExpected(weights)
        /\ WeightSum(weights) = One => adjustedWeights = BothWeakExpected(weights)
        /\ weights = DEFAULT_WEIGHTS =>
              adjustedWeights = [lambda3 |-> R(30, 100), lambda2 |-> R(24, 100),
                                 lambda1 |-> R(46, 100)]

\* Both counts present in the metadata and below the threshold, default weights.
C5_Witness ==
    /\ Done
    /\ Present3
    /\ GivenCount("trigram_counts", Key3) = 2
    /\ GivenCount("bigram_counts", Key2) = 2
    /\ weights = DEFAULT_WEIGHTS
    /\ adjustedWeights.lambda2 = R(24, 100)

(* C6: the boundary is count < 3. A count of exactly 3 is strong: the       *)
(* order's weight is not reduced and its table is consulted. A count of 2   *)
(* is weak: the weight is halved and the table is not consulted. The same   *)
(* boundary holds for order 3 and order 2, in the weight adjustment and in  *)
(* the inclusion filter.                                                    *)
\* lambda2 as the order-2 step finds it: with the order-3 share when order 3 backed off
Lambda2AfterTrigramStep ==
    IF Strong3 THEN weights.lambda2
    ELSE RAdd(weights.lambda2, RMul(R(3, 10), weights.lambda3))

C6_ThresholdIsBelowThree ==
    Done =>
        /\ (Present3 /\ GivenCount("trigram_counts", Key3) = 3) =>
              /\ lambdas.lambda3 = weights.lambda3
              /\ 3 \in consulted
        /\ (Present3 /\ GivenCount("trigram_counts", Key3) = 2) =>
              /\ lambdas.lambda3 = RDiv(weights.lambda3, R(2, 1))
              /\ 3 \notin consulted
        /\ (Present2 /\ GivenCount("bigram_counts", Key2) = 3) =>
              /\ lambdas.lambda2 = Lambda2AfterTrigramStep
              /\ 2 \in consulted
        /\ (Present2 /\ GivenCount("bigram_counts", Key2) = 2) =>
              /\ lambdas.lambda2 = RDiv(Lambda2AfterTrigramStep, R(2, 1))
              /\ 2 \notin consulted

\* Order 3 exactly at the boundary and order 2 just below it, in one call.
C6_Witness ==
    /\ Done
    /\ Present3
    /\ GivenCount("trigram_counts", Key3) = 3
    /\ GivenCount("bigram_counts", Key2) = 2
    /\ weights = DEFAULT_WEIGHTS
    /\ consulted = {1, 3}
    /\ lambdas.lambda2 = R(15, 100)

(* C7: the order-3 table is consulted only if the progression has >= 3      *)
(* chords and its order-3 count is >= 3, the order-2 table only if it has   *)
(* >= 2 chords and its order-2 count is >= 3, and the order-1 table         *)
(* whenever it has >= 1 chord, whatever the order-1 count is.               *)
C7_InclusionFilter ==
    Done =>
        /\ 3 \in consulted => Strong3
        /\ 2 \in consulted => Strong2
        /\ Len(progression) >= 1 => 1 \in consulted

\* Only the order-1 table is read, although its context count is 0.
C7_Witness ==
    /\ Done
    /\ Present3
    /\ consulted = {1}
    /\ GivenCount("unigram_counts", Key1) = 0
    /\ DOMAIN result # {}

(* C8: the weights adjustWeights returns sum to 1 and each is >= 0, for     *)
(* every combination of context counts and every base triple of             *)
(* non-negative weights, also one that does not sum to 1.                   *)
C8_AdjustedWeightsSumToOne ==
    (Done /\ Len(progression) >= 1) =>
        /\ WeightSum(adjustedWeights) = One
        /\ RGe(adjustedWeights.lambda1, Zero)
        /\ RGe(adjustedWeights.lambda2, Zero)
        /\ RGe(adjustedWeights.lambda3, Zero)

(* C9: when the three weights total 0 after the backoff steps, the weight   *)
(* adjustment returns uniform thirds.                                       *)
C9_ZeroTotalGivesThirds ==
    (Done /\ Len(progression) >= 1 /\ WeightSum(lambdas) = Zero) =>
        adjustedWeights = [lambda3 |-> R(1, 3), lambda2 |-> R(1, 3), lambda1 |-> R(1, 3)]

(* C10: with the base weights and the order-2 count fixed, the adjusted     *)
(* lambda3 for a weak or absent order-3 context is never greater than the   *)
(* adjusted lambda3 for a strong one, and strictly smaller when the base    *)
(* lambda3 is positive.                                                     *)
\* The context counts of this call with the order-3 count made weak or absent.
WeakTrigramVariants ==
    {[order \in DOMAIN contextCounts \ {"trigram"} |-> contextCounts[order]]}
    \cup {[contextCounts EXCEPT !["trigram"] = c] : c \in 0..2}

C10_BackoffMonotone ==
    (Done /\ Strong3) =>
        \A weak \in WeakTrigramVariants :
            /\ ~RGt(adjustWeights(weights, weak).lambda3, adjustedWeights.lambda3)
            /\ RGt(weights.lambda3, Zero) =>
                  RLt(adjustWeights(weights, weak).lambda3, adjustedWeights.lambda3)

\* A strong order-3 context with a weak order-2 context and a positive lambda3.
C10_Witness ==
    /\ Done
    /\ Strong3
    /\ ~Strong2
    /\ RGt(weights.lambda3, Zero)
    /\ WeightSum(weights) # One

(* C11: a context the supplied metadata holds no count for is not an error: *)
(* it is counted as 0, so the call returns what it returns when the         *)
(* metadata holds that context with an explicit count of 0, and backoff is  *)
(* applied for that order.                                                  *)
\* A count table with an explicit 0 added for a context it does not hold.
WithZeroFor(table, context) ==
    IF context \in DOMAIN table THEN table ELSE (context :> 0) @@ table

TableOrEmpty(table) ==
    IF table \in DOMAIN metadata.tables THEN metadata.tables[table] ELSE <<>>

\* The supplied metadata with explicit zeros for the contexts of this call.
MetadataWithExplicitZeros ==
    [given |-> TRUE,
     tables |-> "unigram_counts" :> WithZeroFor(TableOrEmpty("unigram_counts"), Key1)
                @@ "bigram_counts" :> WithZeroFor(TableOrEmpty("bigram_counts"), Key2)
                @@ "trigram_counts" :> WithZeroFor(TableOrEmpty("trigram_counts"), Key3)]

Absent(table, context) == context \notin DOMAIN TableOrEmpty(table)

C11_AbsentContextCountsZero ==
    (Done /\ Len(progression) >= 1 /\ metadata.given) =>
        /\ result = computeProbabilities(progression, models, weights,
                                         MetadataWithExplicitZeros)
        /\ (Len(progression) >= 3 /\ Absent("trigram_counts", Key3)) =>
              /\ contextCounts["trigram"] = 0
              /\ lambdas.lambda3 = RDiv(weights.lambda3, R(2, 1))
              /\ 3 \notin consulted
        /\ (Len(progression) >= 2 /\ Absent("bigram_counts", Key2)) =>
              /\ contextCounts["bigram"] = 0
              /\ lambdas.lambda2 = RDiv(Lambda2AfterTrigramStep, R(2, 1))
              /\ 2 \notin consulted
        /\ Absent("unigram_counts", Key1) => contextCounts["unigram"] = 0

\* The trigram table has a row for the context, the metadata has no count for it.
C11_Witness ==
    /\ Done
    /\ Len(progression) >= 3
    /\ metadata.given
    /\ "trigram_counts" \in DOMAIN metadata.tables
    /\ Absent("trigram_counts", Key3)
    /\ Key3 \in DOMAIN models.trigram
    /\ weights = DEFAULT_WEIGHTS
    /\ DOMAIN result # {}

(* C12: the candidate set is the union of the next-chord keys of the rows   *)
(* of the tables that passed their inclusion filter, and each returned      *)
(* chord's value is score(t) divided by the sum of all candidate scores,    *)
(* with score(t) = lambda3*P3(t) + lambda2*P2(t) + lambda1*P1(t) on the     *)
(* adjusted weights, 0 standing for a missing entry or an excluded table.   *)
IncludedRow3 == IF Strong3 THEN RowOf(models.trigram, Key3) ELSE <<>>

IncludedRow2 == IF Strong2 THEN RowOf(models.bigram, Key2) ELSE <<>>

IncludedRow1 == IF Len(progression) >= 1 THEN RowOf(models.unigram, Key1) ELSE <<>>

EntryOrZero(row, t) == IF t \in DOMAIN row THEN row[t] ELSE Zero

Candidates == DOMAIN IncludedRow3 \cup DOMAIN IncludedRow2 \cup DOMAIN IncludedRow1

Score(t) ==
    RAdd(RAdd(RMul(adjustedWeights.lambda3, EntryOrZero(IncludedRow3, t)),
              RMul(adjustedWeights.lambda2, EntryOrZero(IncludedRow2, t))),
         RMul(adjustedWeights.lambda1, EntryOrZero(IncludedRow1, t)))

ScoreTotal == RSum([t \in Candidates |-> Score(t)], Candidates)

C12_CandidatesAndBlend ==
    (Done /\ Len(progression) >= 1) =>
        /\ allNextChords = Candidates
        /\ DOMAIN result \subseteq Candidates
        /\ \A t \in DOMAIN result : result[t] = RDiv(Score(t), ScoreTotal)

\* All three tables are read, a candidate is missing from two of the rows,
\* and the bigram and unigram weights differ.
C12_Witness ==
    /\ Done
    /\ consulted = {1, 2, 3}
    /\ \E t \in DOMAIN result : t \notin DOMAIN IncludedRow2 \cup DOMAIN IncludedRow1
    /\ \E t \in DOMAIN result : t \in DOMAIN IncludedRow2 \cap DOMAIN IncludedRow1
    /\ adjustedWeights.lambda2 # adjustedWeights.lambda1

C13_ZeroWeightWitness ==
    /\ Done
    /\ Candidates # {}
    /\ WeightSum(adjustedWeights) = Zero
    /\ result = EmptyObject

IsUniform(dist) ==
    /\ DOMAIN dist # {}
    /\ \A a, b \in DOMAIN dist : dist[a] = dist[b]

C16_MissingUnigramRowGivesUniform ==
    (Done /\ Len(progression) >= 1 /\ Key1 \notin DOMAIN models.unigram) =>
        IsUniform(result)

----------------------------------------------------------------------------
(* Vocabulary of the loader properties *)

FileNames == [k \in 1..Len(files) |-> files[k].name]

Range(seq) == {seq[k] : k \in 1..Len(seq)}

Failures == {"notOk", "networkError", "unparsable"}

Starts(c) == loads[c].pc = "idle" /\ loads'[c].pc # "idle"

(* C17: when one of the three fetches of a loadModels call fails (non-OK    *)
(* response, network error, unparsable body) the call is rejected with the  *)
(* load error, it fetches no further file, it never reports 'Complete', it  *)
(* leaves the cache as it was (empty when no call has succeeded, so that a  *)
(* later call starts the load again), and the page ends with loading =      *)
(* false, error set and models = null.                                      *)
C17_FailedLoadState ==
    /\ \A c \in LoadIds :
          /\ loads[c].response \in Failures => loads[c].pc = "rejected"
          /\ loads[c].pc = "rejected" =>
                /\ loads[c].error = LoadError
                /\ loads[c].value = Null
                /\ ProgressComplete \notin Range(loads[c].progress)
                /\ loads[c].fetched = SubSeq(FileNames, 1, loads[c].i + 1)
                /\ cachedModels # Null => cachedModels.id # c
    /\ (\A c \in LoadIds : loads[c].pc # "resolved") => cachedModels = Null
    /\ (~page.loading /\ loads[PageLoad].pc = "rejected") =>
          /\ page.error = PageErrorText
          /\ page.models = Null

C17_FailedLoadSteps ==
    \A c \in LoadIds :
        /\ (loads[c].pc # "rejected" /\ loads'[c].pc = "rejected") =>
              cachedModels' = cachedModels
        /\ loads[c].pc = "rejected" => loads'[c] = loads[c]
        /\ (Starts(c) /\ cachedModels = Null) =>
              /\ loads'[c].pc = "fetching"
              /\ loads'[c].fetched = <<"unigram.json">>

C17_FailedLoadIsConfined == []C17_FailedLoadState /\ [][C17_FailedLoadSteps]_vars

\* The page's load failed on the second file, the page shows the error, and a
\* later call has started the load again from the first file.
C17_Witness ==
    /\ loads[PageLoad].pc = "rejected"
    /\ loads[PageLoad].i = 1
    /\ loads[PageLoad].response = "notOk"
    /\ ~page.loading
    /\ page.error = PageErrorText
    /\ cachedModels = Null
    /\ loads[2].pc = "fetching"
    /\ loads[2].fetched = <<"unigram.json">>

(* C18: once one loadModels call has succeeded, every later call resolves   *)
(* to the identical Models object, performs no fetch and reports no         *)
(* progress.                                                                *)
C18_LaterCallsGetTheSameObject ==
    [][\A c \in LoadIds :
          (Starts(c) /\ \E d \in LoadIds : loads[d].pc = "resolved") =>
              /\ loads'[c].pc = "resolved"
              /\ loads'[c].fetched = <<>>
              /\ loads'[c].progress = <<>>
              /\ \A d \in LoadIds :
                    loads[d].pc = "resolved" => loads'[c].value = loads[d].value]_vars

----------------------------------------------------------------------------
(* C19: merge is associative and commutative: however the sequences are     *)
(* spread over the shards and in whatever order the shards are merged, the  *)
(* counts per (order, context, next-token) of the last aggregator left are  *)
(* those of one aggregator that ingested all the sequences.                 *)
C19_MergeOrderIrrelevant ==
    \A sh \in Shards : live = {sh} => aggs[sh] = whole

\* All three shards ingested a sequence and were merged, shard 3 into 2 first.
C19_Witness ==
    /\ live = {1}
    /\ lastOp.op = "merge"
    /\ lastOp.from = 2
    /\ ingests = 3
    /\ aggs[2] # NoCounts
    /\ aggs[3] # NoCounts
    /\ aggs[2] # aggs[3]
    /\ \E key \in DOMAIN whole : whole[key] >= 3

(* C20: ingesting a sequence with a token that contains the delimiter       *)
(* raises DelimiterCollision and changes no counter of any order, also      *)
(* when the offending token is not the first one.                           *)
C20_FailedIngestIsAtomic ==
    [][(ingests' = ingests + 1) =>
          /\ (\E i \in 1..Len(lastOp'.seq) : lastOp'.seq[i] \in {"C,C", "C,G", "G,C", "G,G"})
                => /\ lastOp'.outcome = "DelimiterCollision"
                   /\ aggs' = aggs
          /\ lastOp'.outcome = "DelimiterCollision" => aggs' = aggs]_vars

\* A failed ingest, offending token in third place, into a shard that holds counts.
C20_Witness ==
    /\ lastOp.op = "ingest"
    /\ lastOp.outcome = "DelimiterCollision"
    /\ lastOp.seq = <<"C", "G", "C,G", "G">>
    /\ aggs[lastOp.shard] # NoCounts

----------------------------------------------------------------------------
\* Vocabulary of C21.

RECURSIVE SumOver(_, _)
SumOver(counts, keys) ==
    IF keys = {} THEN 0
    ELSE LET k == CHOOSE x \in keys : TRUE
         IN  counts[k] + SumOver(counts, keys \ {k})

\* All counts an aggregator holds at one order.
TotalAt(counts, order) == SumOver(counts, {k \in DOMAIN counts : k[1] = order})

\* The positions of seq whose order-n record is key.
PositionsFor(seq, key) ==
    {i \in (key[1] + 1)..Len(seq) :
        /\ seq[i] = key[3]
        /\ Join(SubSeq(seq, i - key[1], i - 1)) = key[2]}

AtLeastZero(x) == IF x > 0 THEN x ELSE 0

NeverBelow(after, earlier) ==
    \A k \in DOMAIN earlier : k \in DOMAIN after /\ after[k] >= earlier[k]

(* C21: a successful ingest of a sequence of length n adds one count per    *)
(* position i >= 2 at order 1, i >= 3 at order 2 and i >= 4 at order 3,     *)
(* that is max(n-1,0), max(n-2,0) and max(n-3,0) counts; a sequence too     *)
(* short for an order adds nothing there and is not an error; and no        *)
(* ingest or merge decreases a counter.                                     *)
C21_IngestAddsOnePerPosition ==
    [][/\ \A sh \in Shards : NeverBelow(aggs'[sh], aggs[sh])
       /\ (ingests' = ingests + 1 /\ lastOp'.outcome # "DelimiterCollision") =>
             LET sh  == lastOp'.shard
                 seq == lastOp'.seq
             IN  /\ lastOp'.outcome = "ok"
                 /\ \A n \in {1, 2, 3} :
                       TotalAt(aggs'[sh], n) = TotalAt(aggs[sh], n) + AtLeastZero(Len(seq) - n)
                 /\ \A k \in DOMAIN aggs'[sh] :
                       aggs'[sh][k] = CountOf(aggs[sh], k) + Cardinality(PositionsFor(seq, k))
                 /\ \A k \in DOMAIN aggs'[sh] : aggs'[sh][k] >= 1]_vars

\* The length-4 sequence was ingested into a shard that already held its
\* counts, after a merge.
C21_Witness ==
    /\ lastOp.op = "ingest"
    /\ lastOp.outcome = "ok"
    /\ lastOp.seq = <<"C", "G", "C", "G">>
    /\ CountOf(aggs[lastOp.shard], <<3, "C,G,C", "G">>) = 2
    /\ TotalAt(aggs[lastOp.shard], 1) = 6
    /\ live # Shards

----------------------------------------------------------------------------
\* Vocabulary of C22.

\* A row restricted to its positive entries and divided by their sum.
PositiveRenormalized(row) ==
    LET positive == {t \in DOMAIN row : RGt(row[t], Zero)}
        kept == [t \in positive |-> row[t]]
        total == RSum(kept, positive)
    IN  [t \in positive |-> RDiv(row[t], total)]

UnigramRowOnly ==
    /\ consulted = {1}
    /\ result = PositiveRenormalized(RowOf(models.unigram, Key1))

(* C22: a call without metadata never reads the order-3 and order-2 tables, *)
(* whatever the progression's length, and returns the order-1 row of the    *)
(* last token, restricted to its positive entries and renormalized; the     *)
(* tokens before the last one do not matter.                                *)
C22_NoMetadataGivesUnigramRow ==
    (Done /\ ~metadata.given /\ Len(progression) >= 1) => UnigramRowOnly

\* The same for weights whose total is positive, the page's default among them.
C22_WithPositiveWeightTotal ==
    (Done /\ ~metadata.given /\ Len(progression) >= 1 /\ RGt(WeightSum(weights), Zero)) =>
        UnigramRowOnly

\* The page's call on a progression of three chords whose trigram and bigram
\* rows exist and differ from the unigram row.
C22_PageCallWitness ==
    /\ Done
    /\ ~metadata.given
    /\ weights = DEFAULT_WEIGHTS
    /\ Len(progression) = 3
    /\ Key3 \in DOMAIN models.trigram
    /\ Key2 \in DOMAIN models.bigram
    /\ models.bigram[Key2] # RowOf(models.unigram, Key1)
    /\ result # EmptyObject

----------------------------------------------------------------------------
\* Vocabulary of C23.

\* The context key of order n: lines 29, 35, 41 and 126, 133, 140.
KeyOf(prog, n) == IF n = 1 THEN LastChord(prog) ELSE Join(SliceLast(prog, n))

\* Every run of n delimiter-free labels, as a progression of its own. Two
\* progressions are compared through the run of the last n labels of one of them.
Runs(n) == [1..n -> ChordLabels]

SameLast(p, q, n) == \A k \in 0..(n - 1) : p[Len(p) - k] = q[Len(q) - k]

SumsToOne(dist) == RSum(dist, DOMAIN dist) = One

(* C23: for labels without the delimiter ',' the context key of order 1, 2  *)
(* or 3 is injective: two progressions have the same order-n key exactly    *)
(* when their last n labels are equal, and the order-1 key is the bare last *)
(* label; a progression with a label that holds the delimiter is not        *)
(* rejected: the call ends as any other, with the empty mapping or a        *)
(* distribution.                                                            *)
C23_ContextKeysInjective ==
    (Done /\ Len(progression) >= 1) =>
        /\ Key1 = progression[Len(progression)]
        /\ progression \in CleanProgressions =>
              \A n \in 1..3 : \A q \in Runs(n) :
                  Len(progression) >= n =>
                      (KeyOf(q, n) = KeyOf(progression, n) <=> SameLast(q, progression, n))
        /\ progression \in DelimiterProgressions =>
              /\ 1 \in consulted
              /\ result = EmptyObject \/ SumsToOne(result)

\* A call on three labels: another progression shares its last two labels and
\* not its third, so the order-2 keys agree and the order-3 keys differ.
C23_Witness ==
    /\ Done
    /\ progression = <<"C", "G", "Amin">>
    /\ KeyOf(<<"G", "G", "Amin">>, 2) = Key2
    /\ KeyOf(<<"G", "G", "Amin">>, 3) # Key3

\* A call on a progression with a delimiter label, whose order-2 key is also
\* the key of a progression with other labels.
C23_DelimiterWitness ==
    /\ Done
    /\ progression = <<"C", "G,C">>
    /\ Key2 = KeyOf(<<"C,G", "C">>, 2)
    /\ 1 \in consulted
    /\ result = EmptyObject

----------------------------------------------------------------------------
\* Vocabulary of C24.

Prefix(s, n) == SubSeq(s, 1, n)

\* What the callback has been given when the k-th fetch starts: loaded = 0 .. k-1.
ProgressBeforeFetches(k) ==
    [j \in 1..k |-> [loaded |-> j - 1, total |-> 3, currentFile |-> FileNames[j]]]

CompleteReport == [loaded |-> 3, total |-> 3, currentFile |-> "Complete"]

Loading(load) == load.pc \in {"fetching", "parsing"}

\* The keys of the files whose fetch and parse have both succeeded.
KeysDone(load) == DOMAIN load.results

C24_OneCallInOrder(load) ==
    LET k == Len(load.fetched)
    IN  /\ k <= 3
        /\ load.fetched = Prefix(<<"unigram.json", "bigram.json", "trigram.json">>, k)
        /\ Loading(load) =>
              /\ k >= 1
              /\ load.progress = ProgressBeforeFetches(k)
              /\ KeysDone(load) = {files[j].key : j \in 1..(k - 1)}
        /\ load.pc = "rejected" =>
              /\ load.progress = ProgressBeforeFetches(k)
              /\ CompleteReport \notin Range(load.progress)
        /\ (load.pc = "resolved" /\ k > 0) =>
              /\ k = 3
              /\ load.progress = Append(ProgressBeforeFetches(3), CompleteReport)
              /\ KeysDone(load) = {"unigram", "bigram", "trigram"}
        /\ \A a, b \in 1..Len(load.progress) :
              a <= b => load.progress[a].loaded <= load.progress[b].loaded

(* C24: within one loadModels call the files are fetched one after another  *)
(* in the order unigram.json, bigram.json, trigram.json, each fetch started *)
(* only after the one before it has succeeded and been parsed; the callback *)
(* is given loaded = 0, 1, 2 before the respective fetch, never a lower     *)
(* number after a higher one; and loaded = total = 3 with 'Complete' is     *)
(* reported only when all three have succeeded, in the step in which the    *)
(* call resolves.                                                           *)
C24_FetchesInOrderWithProgress ==
    /\ [](\A c \in LoadIds : C24_OneCallInOrder(loads[c]))
    /\ [][\A c \in LoadIds :
            (CompleteReport \in Range(loads'[c].progress)
                 /\ CompleteReport \notin Range(loads[c].progress)) =>
                /\ loads[c].pc = "parsing"
                /\ loads[c].fetched = FileNames
                /\ loads'[c].pc = "resolved"]_vars

\* Two calls overlap; the second has resolved after its three fetches while the
\* first is still between its second fetch and its parse.
C24_Witness ==
    /\ loads[2].pc = "resolved"
    /\ Len(loads[2].progress) = 4
    /\ loads[2].fetched = FileNames
    /\ loads[1].pc = "parsing"
    /\ Len(loads[1].fetched) = 2

----------------------------------------------------------------------------
\* Vocabulary of C25.

NoFetchFailed == \A c \in LoadIds : loads[c].pc # "rejected"

\* The fetches of one file, as (call, position) pairs, over all calls.
FetchesOf(name) ==
    {<<c, k>> \in LoadIds \X (1..3) : k <= Len(loads[c].fetched) /\ loads[c].fetched[k] = name}

(* C25: while no fetch fails, each of the three files is fetched at most    *)
(* once over all loadModels calls, calls started while an earlier one is    *)
(* still in flight included, and all the calls resolve to the same Models   *)
(* object.                                                                  *)
C25_EachFileFetchedOnce ==
    NoFetchFailed =>
        /\ \A name \in Range(FileNames) : Cardinality(FetchesOf(name)) <= 1
        /\ \A c, d \in LoadIds :
              (loads[c].pc = "resolved" /\ loads[d].pc = "resolved") =>
                  loads[c].value = loads[d].value

----------------------------------------------------------------------------
\* Vocabulary of C26.

Appended(old, new, chord) ==
    /\ Len(new) = Len(old) + 1
    /\ \A k \in 1..Len(old) : new[k] = old[k]
    /\ new[Len(new)] = chord

\* Exactly the element at index (counted from 0) is gone; the others keep
\* their order.
RemovedAt(old, new, index) ==
    /\ Len(new) = Len(old) - 1
    /\ \A k \in 1..Len(new) : new[k] = IF k <= index THEN old[k] ELSE old[k + 1]

ModelsAndSavedKept ==
    /\ page'.models = page.models
    /\ cachedModels' = cachedModels
    /\ home'.savedProgressions = home.savedProgressions

----------------------------------------------------------------------------
(* C27: after any sequence of add, remove, clear and model-load events,     *)
(* once the page's effects have run, nextChordProbs is                      *)
(* computeProbabilities(progression, models, DEFAULT_WEIGHTS) when models   *)
(* are loaded and the progression is not empty, and the empty mapping       *)
(* otherwise; no prediction of an earlier progression is left after Clear.  *)
C27_PredictionsFollowProgression ==
    ~EffectPending =>
        home.nextChordProbs =
            IF page.models # Null /\ home.progression # <<>>
            THEN computeProbabilities(home.progression, page.models, DEFAULT_WEIGHTS,
                                      NoMetadata)
            ELSE EmptyObject

\* The progression is empty again after one was built (and saved), and the
\* effect has run since.
C27_Witness ==
    /\ ~EffectPending
    /\ page.models # Null
    /\ home.progression = <<>>
    /\ home.savedProgressions # <<>>
    /\ home.nextChordProbs = EmptyObject

\* Predictions shown for a progression of two chords.
C27_PredictionsWitness ==
    /\ ~EffectPending
    /\ home.progression = <<"C", "G">>
    /\ DOMAIN home.nextChordProbs = {"Amin", "C"}

----------------------------------------------------------------------------
\* The states playback starts from are states of the page (reached in SpecPage).
PlaybackStartsFromPageState == PageLoaded(<<>>) \/ PageLoaded(<<"C">>)

PlaybackStartWithChord == PageLoaded(<<"C">>)

(* C28: whenever handlePlayMidi has set isPlaying to true, isPlaying        *)
(* becomes false again: through the timer set for the duration, through     *)
(* handleStopMidi, through the stop listener, or through the error path,    *)
(* in every interleaving of play and stop requests, settling promises and   *)
(* expiring timers.                                                         *)
C28_PlayingEventuallyEnds == isPlaying ~> ~isPlaying

\* isPlaying is true while a play awaits ctx.resume() and a stop request, made
\* meanwhile, awaits ctx.close(): no timer is set yet.
C28_Witness ==
    /\ isPlaying
    /\ timers = {}
    /\ \E c \in 1..Len(midiCalls) : midiCalls[c].kind = "play" /\ midiCalls[c].pc = "resuming"
    /\ \E c \in 1..Len(midiCalls) : midiCalls[c].kind = "stop" /\ midiCalls[c].pc = "closing"

----------------------------------------------------------------------------
\* Vocabulary of C29.

PlaybackStateKept ==
    /\ isPlaying' = isPlaying
    /\ playTimeoutRef' = playTimeoutRef
    /\ timers' = timers
    /\ audioContext' = audioContext
    /\ contexts' = contexts
    /\ heard' = heard

NewCall(kind) ==
    /\ Len(midiCalls') = Len(midiCalls) + 1
    /\ midiCalls'[Len(midiCalls')].kind = kind

\* handlePlayMidi and handleStopMidi do nothing when their guard fails.
C29_GuardsHold ==
    [][/\ (NewCall("play") /\ (home.progression = <<>> \/ isPlaying)) =>
              (PlaybackStateKept /\ midiCalls'[Len(midiCalls')].pc = "done")
       /\ (NewCall("stop") /\ ~isPlaying) =>
              (PlaybackStateKept /\ midiCalls'[Len(midiCalls')].pc = "done")]_vars

\* In the step in which a handleStopMidi call ends, isPlaying is false and no
\* timer is pending.
C29_StoppedWhenStopReturns ==
    [][\A c \in 1..Len(midiCalls) :
          (midiCalls[c].kind = "stop" /\ midiCalls[c].pc # "done"
               /\ midiCalls'[c].pc = "done") =>
              (~isPlaying' /\ timers' = {})]_vars

C29_AtMostOneTimer == Cardinality(timers) <= 1

\* After a handleStopMidi call has ended, and until play is requested again,
\* isPlaying is false and no timer is pending.
C29_StaysStopped == stopDone => (~isPlaying /\ timers = {})

(* C29: handlePlayMidi does nothing when the progression is empty or        *)
(* isPlaying is true, handleStopMidi does nothing when isPlaying is false;  *)
(* once handleStopMidi has completed, isPlaying is false and no             *)
(* playback-end timer is pending, also when the stop request came while a   *)
(* handlePlayMidi call was awaiting stopChordProgression or                 *)
(* playChordProgression; and at most one playback-end timer is pending at   *)
(* any time.                                                                *)
C29_StopLeavesNothingPending ==
    /\ C29_GuardsHold
    /\ C29_StoppedWhenStopReturns
    /\ [](C29_AtMostOneTimer /\ C29_StaysStopped)

----------------------------------------------------------------------------
\* Vocabulary of C30.

\* A call of stopChordProgression starts to wait for ctx.close().
CloseBegins(c) ==
    /\ c \in 1..Len(midiCalls')
    /\ midiCalls'[c].pc = "closing"
    /\ (c > Len(midiCalls) \/ midiCalls[c].pc # "closing")

\* The close() a call waited for has settled.
CloseEnds(c) ==
    /\ c \in 1..Len(midiCalls)
    /\ midiCalls[c].pc = "closing"
    /\ midiCalls'[c].pc # "closing"

OnceEachRegistered ==
    heard' = [l \in Listeners |-> heard[l] + (IF l \in stopListeners THEN 1 ELSE 0)]

(* C30: stopChordProgression, when an audio context exists, clears the      *)
(* module's audioContext reference and then calls every listener registered *)
(* at that time exactly once, also when closing the context fails; when no  *)
(* audio context exists it calls no listener; a listener removed through    *)
(* the function onPlaybackStopped returned is not called by a later stop.   *)
C30_StopCallsRegisteredListeners ==
    [][/\ \A c \in 1..MaxCalls :
             /\ CloseBegins(c) =>
                   (audioContext # 0 /\ audioContext' = 0 /\ heard' = heard)
             /\ CloseEnds(c) => (OnceEachRegistered /\ audioContext # midiCalls[c].ctx)
       /\ heard' # heard => \E c \in 1..MaxCalls : CloseEnds(c)
       /\ \A l \in Listeners : heard'[l] > heard[l] => l \in stopListeners]_vars

\* Two stops have called the page's listener; the other listener was registered
\* for one of them only and is removed now.
C30_Witness ==
    /\ heard["page"] = 2
    /\ heard["other"] = 1
    /\ "other" \notin stopListeners
    /\ \E k \in 1..Len(contexts) : contexts[k] = "closed"
    /\ \E k \in 1..Len(contexts) : contexts[k] # "closed" /\ audioContext # k

====
